---------------------------- MODULE Spec2Model ----------------------------
(***************************************************************************)
(* A model of src/dpll.py: the recursive DPLL procedure dpll, its helpers  *)
(* (simplify, select_literal, has_empty_clause, has_unit_clause,           *)
(* get_unique_literals), the wrapper dpll_wrapper and the reader           *)
(* parse_cnf.  The recursion of dpll is an explicit stack of frames; the   *)
(* valuation is the one dictionary shared by every frame.                  *)
(***************************************************************************)
EXTENDS Integers, Sequences, FiniteSets

VARIABLES
    cnf,        \* the formula handed to dpll_wrapper (or to simplify / built by parse_cnf)
    valuation,  \* the dictionary of dpll_wrapper, shared by all calls of dpll
    stack,      \* the call stack of dpll: frames [cnf, pc, literal]
    retval,     \* the value the call that just returned gave back ("none" while a call runs)
    pc,         \* where the top-level code is
    sat,        \* dpll_wrapper's local sat
    returned,   \* what dpll_wrapper returned
    step,       \* which branch of dpll's body the call that ran last took
    file,       \* the lines of the file parse_cnf reads
    literal,    \* the literal argument of a direct call of simplify
    out         \* the result of a direct call of simplify or of parse_cnf

vars == <<cnf, valuation, stack, retval, pc, sat, returned, step, file, literal, out>>

-----------------------------------------------------------------------------
(* Bounds of the model.                                                    *)

\* variable ids of the enumerated formulas are 1..NumVars
NumVars == 2
\* an enumerated formula has at most MaxSize clauses and literal occurrences together
MaxSize == 6
\* the files parse_cnf is run on: variable ids 1..MaxParseVar, at most MaxParseLen
\* literals on a line and at most MaxParseLines clause lines
MaxParseVar == 10
MaxParseLen == 2
MaxParseLines == 2

-----------------------------------------------------------------------------
(* Python's list and dict primitives.                                      *)

Abs(x) == IF x < 0 THEN -x ELSE x

\* None, as returned by select_literal on a formula without literals
None == 0

\* x in seq
Contains(seq, x) == \E i \in 1..Len(seq) : seq[i] = x

\* list.remove(x): drops the first occurrence of x only
Remove(seq, x) ==
    LET i == CHOOSE j \in 1..Len(seq) :
                 seq[j] = x /\ \A k \in 1..(j - 1) : seq[k] # x
    IN  SubSeq(seq, 1, i - 1) \o SubSeq(seq, i + 1, Len(seq))

\* d[k] = v on a dictionary d (a function): the key is added when absent
Put(d, k, v) == [x \in (DOMAIN d) \cup {k} |-> IF x = k THEN v ELSE d[x]]

\* the literals of a formula in the order the nested for loops visit them
RECURSIVE Flatten(_)
Flatten(f) == IF Len(f) = 0 THEN <<>> ELSE Head(f) \o Flatten(Tail(f))

\* the size of a formula: its clauses and its literal occurrences together
Size(f) == Len(f) + Len(Flatten(f))

-----------------------------------------------------------------------------
(* The helpers of dpll.                                                    *)

lit_in_cnf(lit, f) == \E i \in 1..Len(f) : Contains(f[i], lit)

RECURSIVE uniq_from(_, _)
uniq_from(lits, uniq) ==
    IF Len(lits) = 0 THEN uniq
    ELSE LET lit == Head(lits)
         IN  IF ~Contains(uniq, lit) /\ ~Contains(uniq, -lit)
             THEN uniq_from(Tail(lits), Append(uniq, Abs(lit)))
             ELSE uniq_from(Tail(lits), uniq)

get_unique_literals(f) == uniq_from(Flatten(f), <<>>)

\* literal_occurrences as the sequence of its items <<key, value>> in insertion order
HasKey(items, k) == \E i \in 1..Len(items) : items[i][1] = k

Increment(items, k) ==
    [i \in 1..Len(items) |->
        IF items[i][1] = k THEN <<k, items[i][2] + 1>> ELSE items[i]]

\* lines 49-51 for one literal: a new key is set to 1, then the key is incremented
Count(items, lit, f) ==
    Increment(IF ~HasKey(items, lit) /\ lit_in_cnf(lit, f)
              THEN Append(items, <<lit, 1>>)
              ELSE items, lit)

\* the loops of lines 47-51 over the literals lits still to visit.  Here and below,
\* CHOOSE r \in {e(x) : x \in {v}} : TRUE is e(v) with v, a local variable of the
\* code, computed once.
RECURSIVE count_from(_, _, _)
count_from(lits, f, items) ==
    IF Len(lits) = 0 THEN items
    ELSE CHOOSE r \in {count_from(Tail(lits), f, d) :
                          d \in {Count(items, Head(lits), f)}} : TRUE

literal_occurrences(f) ==
    CHOOSE r \in {count_from(lits, f, <<>>) : lits \in {Flatten(f)}} : TRUE

\* the loop of lines 55-58 over the items still to visit
RECURSIVE best_from(_, _, _)
best_from(items, best_literal, num_occs) ==
    IF Len(items) = 0 THEN best_literal
    ELSE IF Head(items)[2] > num_occs
         THEN best_from(Tail(items), Head(items)[1], Head(items)[2])
         ELSE best_from(Tail(items), best_literal, num_occs)

select_literal(f) ==
    CHOOSE r \in {best_from(items, None, 0) : items \in {literal_occurrences(f)}} : TRUE

\* simplify's loop body without the removal of the clauses that hold l
simplify_clause_keeps(clause, l) ==
    IF Contains(clause, -l) THEN <<Remove(clause, -l)>> ELSE <<clause>>

\* the body of simplify's loop for one clause: the clauses it appends
simplify_clause(clause, l) ==
    IF Contains(clause, -l) THEN <<Remove(clause, -l)>>
    ELSE IF Contains(clause, l) THEN <<>>
    ELSE <<clause>>

RECURSIVE simplify(_, _)
simplify(f, l) ==
    IF Len(f) = 0 THEN <<>>
    ELSE simplify_clause(Head(f), l) \o simplify(Tail(f), l)

has_empty_clause(f) == \E i \in 1..Len(f) : Len(f[i]) = 0

has_unit_clause(f) ==
    IF \E i \in 1..Len(f) : Len(f[i]) = 1
    THEN LET i == CHOOSE j \in 1..Len(f) :
                      Len(f[j]) = 1 /\ \A k \in 1..(j - 1) : Len(f[k]) # 1
         IN  [bool_val |-> TRUE, lit |-> f[i][1]]
    ELSE [bool_val |-> FALSE, lit |-> None]

\* dpll's body with the unit clause test before the empty clause test
dpll_case_unit_first(f) ==
    IF Len(f) = 0 THEN "sat"
    ELSE IF has_unit_clause(f).bool_val THEN "unit"
    ELSE IF has_empty_clause(f) THEN "unsat"
    ELSE "branch"

\* which of the four cases of dpll's body a call on f takes
dpll_case(f) ==
    IF Len(f) = 0 THEN "sat"
    ELSE IF has_empty_clause(f) THEN "unsat"
    ELSE IF has_unit_clause(f).bool_val THEN "unit"
    ELSE "branch"

\* a branching step that tries the second branch whatever the first call gave
after_first_always_second(r) == "second"

\* line 126: what a branching step does once its first recursive call gave r
after_first(r) == IF r = "True" THEN "return" ELSE "second"

\* a second recursive call that simplifies by the literal of the first again
second_literal_same(l) == l

\* line 130: the literal the second recursive call simplifies by
second_literal(l) == -l

-----------------------------------------------------------------------------
(* parse_cnf.  A line is a sequence of characters (strings of one character). *)

Whitespace == {" ", "\t", "\n"}

Digits == <<"0", "1", "2", "3", "4", "5", "6", "7", "8", "9">>

\* seq[1:]
Slice1(seq) == SubSeq(seq, 2, Len(seq))

\* seq[:-1]
DropLast(seq) == SubSeq(seq, 1, Len(seq) - 1)

RECURSIVE lstrip(_)
lstrip(line) ==
    IF Len(line) > 0 /\ Head(line) \in Whitespace THEN lstrip(Tail(line)) ELSE line

RECURSIVE rstrip(_)
rstrip(line) ==
    IF Len(line) > 0 /\ line[Len(line)] \in Whitespace
    THEN rstrip(DropLast(line))
    ELSE line

\* str.strip()
strip(line) == rstrip(lstrip(line))

\* str.split(): the maximal runs of characters that are not whitespace
RECURSIVE split_from(_, _, _)
split_from(line, token, tokens) ==
    LET closed == IF Len(token) > 0 THEN Append(tokens, token) ELSE tokens
    IN  IF Len(line) = 0 THEN closed
        ELSE IF Head(line) \in Whitespace
             THEN split_from(Tail(line), <<>>, closed)
             ELSE split_from(Tail(line), Append(token, Head(line)), tokens)

split(line) == split_from(line, <<>>, <<>>)

DigitValue(c) == CHOOSE d \in 0..9 : Digits[d + 1] = c

RECURSIVE nat_from(_, _)
nat_from(digits, value) ==
    IF Len(digits) = 0 THEN value
    ELSE nat_from(Tail(digits), 10 * value + DigitValue(Head(digits)))

\* int(token) on a decimal numeral with an optional sign
int(token) ==
    IF Head(token) = "-" THEN -nat_from(Tail(token), 0)
    ELSE IF Head(token) = "+" THEN nat_from(Tail(token), 0)
    ELSE nat_from(token, 0)

\* line 14, for one line
clause_of(line) ==
    LET tokens == DropLast(split(line))
    IN  [j \in 1..Len(tokens) |-> int(tokens[j])]

parse_cnf(content) ==
    LET stripped == [i \in 1..Len(content) |-> strip(content[i])]
        lines == Slice1(stripped)
        body == Slice1(lines)
    IN  [i \in 1..Len(body) |-> clause_of(body[i])]

-----------------------------------------------------------------------------
(* The formulas the model is run on.                                       *)

Lits == {x \in (-NumVars)..NumVars : x # 0}

\* the sums of the first i entries of a sequence of lengths
RECURSIVE Sum(_, _)
Sum(lens, i) == IF i = 0 THEN 0 ELSE lens[i] + Sum(lens, i - 1)

\* the ways to cut n literals into k clauses, empty ones included
Shapes(n, k) == {lens \in [1..k -> 0..n] : Sum(lens, k) = n}

\* the formula whose clauses have the lengths lens and whose literals are flat
Build(flat, lens) ==
    [i \in 1..Len(lens) |->
        SubSeq(flat, Sum(lens, i - 1) + 1, Sum(lens, i))]

\* cnf1 .. cnf10 of the source
TestFormulas ==
    { << <<1, 2>>, <<-1, 2>>, <<-2, 3>>, <<-3, 4>>, <<-4, 1>> >>,
      << <<1, 2>>, <<-1, -2>>, <<1, -2>> >>,
      << <<1, 2>>, <<-1, -2>>, <<-1, 3>>, <<-3, 4>>, <<4, -2>> >>,
      << <<1, 2>>, <<-1, -2>>, <<1, -2>>, <<-1, 2>> >>,
      << <<1, 2, 3>>, <<1, -2, 3>>, <<-1, -3>>, <<2, -3>> >>,
      << <<1, -2>>, <<-1, 2>>, <<1, -2>>, <<-1, 2>> >>,
      << <<1, -2, 3>>, <<-1, 2, 3>>, <<1, -3>>, <<2, -3>>, <<-1, -2>> >>,
      << <<1, 2>>, <<-1, -2>>, <<-1, 2>>, <<1, -2>> >>,
      << <<1>>, <<-1>> >> }

\* further formulas without duplicate or complementary literals in a clause
MoreFormulas ==
    { << <<1, -2>>, <<2, 3>>, <<2, -3>>, <<-2, 3>> >>,
      << <<-1, 2>>, <<-1, 3>>, <<1, 4>>, <<1, -4>> >>,
      << <<-1, 2, 3>>, <<-1, -2>>, <<-1, -3>>, <<1, 2>>, <<1, -2>> >> }

Vars(f) == {Abs(Flatten(f)[i]) : i \in 1..Len(Flatten(f))}

\* f restricted to the clauses at the positions keep, in order
RECURSIVE SubFormula(_, _, _)
SubFormula(f, keep, i) ==
    IF i > Len(f) THEN <<>>
    ELSE (IF i \in keep THEN <<f[i]>> ELSE <<>>) \o SubFormula(f, keep, i + 1)

\* f with the polarity of the variables in flipped exchanged
Flip(f, flipped) ==
    [i \in 1..Len(f) |->
        [j \in 1..Len(f[i]) |->
            IF Abs(f[i][j]) \in flipped THEN -f[i][j] ELSE f[i][j]]]

\* the test formulas with clauses left out and polarities exchanged
Variants ==
    UNION {{Flip(SubFormula(f, keep, 1), flipped) :
               keep \in SUBSET (1..Len(f)), flipped \in SUBSET Vars(f)} :
           f \in TestFormulas \cup MoreFormulas}

\* a formula of at most MaxSize clauses and literals over NumVars variables
SmallFormula(f) ==
    \E n \in 0..MaxSize : \E k \in 0..(MaxSize - n) :
        \E flat \in [1..n -> Lits], lens \in Shapes(n, k) : f = Build(flat, lens)

-----------------------------------------------------------------------------
(* dpll_wrapper and dpll as a machine.                                     *)

Frame(f) == [cnf |-> f, pc |-> "call", literal |-> None]

Top == stack[Len(stack)]

Pop == SubSeq(stack, 1, Len(stack) - 1)

\* the caller's frame moved to pc p with literal l, and a call of dpll on f pushed
Call(p, l, f) ==
    Append([stack EXCEPT ![Len(stack)] = [cnf |-> Top.cnf, pc |-> p, literal |-> l]],
           Frame(f))

Range(seq) == {seq[i] : i \in 1..Len(seq)}

NotReturned == [kind |-> "pending", val |-> <<>>]

Idle ==
    /\ file = <<>>
    /\ literal = None
    /\ out = <<>>

Init ==
    /\ \/ SmallFormula(cnf)
       \/ cnf \in Variants
    /\ valuation = <<>>
    /\ stack = <<>>
    /\ retval = "none"
    /\ pc = "wrapper"
    /\ sat = "unset"
    /\ returned = NotReturned
    /\ step = "none"
    /\ Idle

\* dpll_wrapper, lines 138-143: the valuation is built and dpll called
WrapperCall ==
    /\ pc = "wrapper"
    /\ valuation' = [p \in Range(get_unique_literals(cnf)) |-> FALSE]
    /\ stack' = <<Frame(cnf)>>
    /\ pc' = "dpll"
    /\ UNCHANGED <<cnf, retval, sat, returned, step, file, literal, out>>

Running == pc = "dpll" /\ Len(stack) > 0

AtCall == Running /\ Top.pc = "call" /\ retval = "none"

\* lines 110-111
ReturnTrue ==
    /\ AtCall
    /\ dpll_case(Top.cnf) = "sat"
    /\ stack' = Pop
    /\ retval' = "True"
    /\ step' = "sat"
    /\ UNCHANGED <<cnf, valuation, pc, sat, returned, file, literal, out>>

\* lines 113-114
ReturnFalse ==
    /\ AtCall
    /\ dpll_case(Top.cnf) = "unsat"
    /\ stack' = Pop
    /\ retval' = "False"
    /\ step' = "unsat"
    /\ UNCHANGED <<cnf, valuation, pc, sat, returned, file, literal, out>>

\* lines 116-120, up to the recursive call
UnitPropagate ==
    /\ AtCall
    /\ dpll_case(Top.cnf) = "unit"
    /\ \E lit_val \in {has_unit_clause(Top.cnf).lit} :
           /\ valuation' = Put(valuation, Abs(lit_val), lit_val > 0)
           /\ stack' = Call("unit", lit_val, simplify(Top.cnf, lit_val))
    /\ step' = "unit"
    /\ UNCHANGED <<cnf, retval, pc, sat, returned, file, literal, out>>

\* line 120, the return of the recursive call's value
UnitReturn ==
    /\ Running
    /\ Top.pc = "unit"
    /\ retval # "none"
    /\ stack' = Pop
    /\ UNCHANGED <<cnf, valuation, retval, pc, sat, returned, step, file, literal, out>>

\* lines 122-126, up to the first recursive call
BranchTrue ==
    /\ AtCall
    /\ dpll_case(Top.cnf) = "branch"
    /\ \E l \in {select_literal(Top.cnf)} :
           /\ valuation' = Put(valuation, l, TRUE)
           /\ stack' = Call("branch1", l, simplify(Top.cnf, l))
    /\ step' = "branch"
    /\ UNCHANGED <<cnf, retval, pc, sat, returned, file, literal, out>>

\* lines 126-127
BranchReturnTrue ==
    /\ Running
    /\ Top.pc = "branch1"
    /\ retval # "none"
    /\ after_first(retval) = "return"
    /\ stack' = Pop
    /\ retval' = "True"
    /\ UNCHANGED <<cnf, valuation, pc, sat, returned, step, file, literal, out>>

\* lines 129-130, up to the second recursive call
BranchFalse ==
    /\ Running
    /\ Top.pc = "branch1"
    /\ retval # "none"
    /\ after_first(retval) = "second"
    /\ valuation' = Put(valuation, Top.literal, FALSE)
    /\ stack' = Call("branch2", Top.literal,
                     simplify(Top.cnf, second_literal(Top.literal)))
    /\ retval' = "none"
    /\ UNCHANGED <<cnf, pc, sat, returned, step, file, literal, out>>

\* line 130, the return of the second recursive call's value
BranchReturn ==
    /\ Running
    /\ Top.pc = "branch2"
    /\ retval # "none"
    /\ stack' = Pop
    /\ UNCHANGED <<cnf, valuation, retval, pc, sat, returned, step, file, literal, out>>

\* dpll_wrapper, lines 143-151
WrapperReturn ==
    /\ pc = "dpll"
    /\ Len(stack) = 0
    /\ retval # "none"
    /\ sat' = retval
    /\ returned' = IF retval = "True"
                   THEN [kind |-> "valuation", val |-> valuation]
                   ELSE [kind |-> "None", val |-> <<>>]
    /\ pc' = "done"
    /\ UNCHANGED <<cnf, valuation, stack, retval, step, file, literal, out>>

Next ==
    \/ WrapperCall
    \/ ReturnTrue
    \/ ReturnFalse
    \/ UnitPropagate
    \/ UnitReturn
    \/ BranchTrue
    \/ BranchReturnTrue
    \/ BranchFalse
    \/ BranchReturn
    \/ WrapperReturn

Spec == Init /\ [][Next]_vars
\* dpll never blocks and never runs forever on one step: every enabled step is taken
SpecFair == Spec /\ WF_vars(Next)

-----------------------------------------------------------------------------
(* simplify called directly on a formula and a literal.                    *)

\* the literals of the enumerated formulas and one of a variable they do not hold
SimplifyLits == {x \in (-(NumVars + 1))..(NumVars + 1) : x # 0}

InitSimplify ==
    /\ \/ SmallFormula(cnf)
       \/ cnf \in Variants
    /\ literal \in SimplifyLits
    /\ out = <<>>
    /\ pc = "simplify"
    /\ valuation = <<>>
    /\ stack = <<>>
    /\ retval = "none"
    /\ sat = "unset"
    /\ returned = NotReturned
    /\ step = "none"
    /\ file = <<>>

SimplifyCall ==
    /\ pc = "simplify"
    /\ out' = simplify(cnf, literal)
    /\ pc' = "simplified"
    /\ UNCHANGED <<cnf, valuation, stack, retval, sat, returned, step, file, literal>>

SpecSimplify == InitSimplify /\ [][SimplifyCall]_vars

-----------------------------------------------------------------------------
(* parse_cnf called on a file written from a list of clauses.              *)

RECURSIVE NatChars(_)
NatChars(n) ==
    IF n < 10 THEN <<Digits[n + 1]>>
    ELSE NatChars(n \div 10) \o <<Digits[(n % 10) + 1]>>

IntChars(x) == IF x < 0 THEN <<"-">> \o NatChars(-x) ELSE NatChars(x)

\* the line of a clause: its literals and the sentinel 0, sep after each literal
RECURSIVE ClauseLine(_, _)
ClauseLine(clause, sep) ==
    IF Len(clause) = 0 THEN <<"0", "\n">>
    ELSE IntChars(Head(clause)) \o sep \o ClauseLine(Tail(clause), sep)

\* the preamble "p cnf <variables> <clauses>"
PreambleLine(f) ==
    <<"p", " ", "c", "n", "f", " ">> \o NatChars(Cardinality(Vars(f)))
        \o <<" ">> \o NatChars(Len(f)) \o <<"\n">>

ParseLits == {x \in (-MaxParseVar)..MaxParseVar : x # 0}

ParseClauses == UNION {[1..m -> ParseLits] : m \in 0..MaxParseLen}

Separators == { <<" ">>, <<" ", "\t">> }

InitParse ==
    /\ \E k \in 0..MaxParseLines : cnf \in [1..k -> ParseClauses]
    /\ \E sep \in Separators :
           file = <<PreambleLine(cnf)>> \o [i \in 1..Len(cnf) |-> ClauseLine(cnf[i], sep)]
    /\ out = <<>>
    /\ pc = "parse"
    /\ literal = None
    /\ valuation = <<>>
    /\ stack = <<>>
    /\ retval = "none"
    /\ sat = "unset"
    /\ returned = NotReturned
    /\ step = "none"

ParseCall ==
    /\ pc = "parse"
    /\ out' = parse_cnf(file)
    /\ pc' = "parsed"
    /\ UNCHANGED <<cnf, valuation, stack, retval, sat, returned, step, file, literal>>

SpecParse == InitParse /\ [][ParseCall]_vars

-----------------------------------------------------------------------------
(* What a formula and a valuation mean.                                    *)

\* literal l is true under the dictionary v
LitTrue(v, l) ==
    /\ Abs(l) \in DOMAIN v
    /\ v[Abs(l)] = (l > 0)

\* every clause of f holds a literal true under v
Satisfies(v, f) ==
    \A i \in 1..Len(f) : \E j \in 1..Len(f[i]) : LitTrue(v, f[i][j])

\* some assignment (the set of its true variables) makes every clause of f true
Satisfiable(f) ==
    \E trueVars \in SUBSET Vars(f) :
        \A i \in 1..Len(f) : \E j \in 1..Len(f[i]) :
            IF f[i][j] > 0 THEN f[i][j] \in trueVars ELSE (-f[i][j]) \notin trueVars

\* no clause of f holds two literals of one variable
Clean(f) ==
    \A i \in 1..Len(f) : \A j, k \in 1..Len(f[i]) :
        j # k => Abs(f[i][j]) # Abs(f[i][k])

-----------------------------------------------------------------------------
(* The claims.                                                             *)

\* C1: the valuation dpll_wrapper returns on SAT makes a literal of every clause of
\* the formula true.
Soundness == returned.kind = "valuation" => Satisfies(returned.val, cnf)

\* C2: dpll returns True exactly when the formula is satisfiable, duplicates included.
Completeness == pc = "done" => ((sat = "True") <=> Satisfiable(cnf))

\* C4: during and after a solve the keys of the valuation are exactly the variable ids
\* of the initial formula, and every value is a Boolean.
ValuationDomain ==
    pc # "wrapper" =>
        /\ DOMAIN valuation = Vars(cnf)
        /\ \A k \in DOMAIN valuation : valuation[k] \in BOOLEAN
        /\ returned.kind = "valuation" => DOMAIN returned.val = Vars(cnf)

\* C9: the number of nested calls of dpll below the top-level one never exceeds the
\* number of distinct variables of the initial formula.
DepthBound == Len(stack) - 1 <= Cardinality(Vars(cnf))

\* the clauses of f that do not hold l, in order
Surviving(f, l) == SelectSeq(f, LAMBDA clause : ~Contains(clause, l))

\* clause without any occurrence of x, the rest in order
Without(clause, x) == SelectSeq(clause, LAMBDA y : y # x)

\* C3: simplify(F, l) is F without the clauses that hold l, each remaining clause
\* without its occurrences of -l, the clauses and their literals in their order; no
\* clause of the result holds l.
SimplifyCorrect ==
    pc = "simplified" =>
        /\ out = [i \in 1..Len(Surviving(cnf, literal)) |->
                     Without(Surviving(cnf, literal)[i], -literal)]
        /\ \A i \in 1..Len(out) : ~Contains(out[i], literal)

\* C6: parse_cnf returns the clauses of the lines after the preamble, one clause per
\* line, each without its sentinel, and no literal 0.
IngestionCorrect ==
    pc = "parsed" =>
        /\ Len(out) = Len(file) - 1
        /\ out = cnf
        /\ \A i \in 1..Len(out) : ~Contains(out[i], 0)

\* C5: the solve ends (dpll_wrapper returns), and every recursive call of dpll is on a
\* formula with strictly fewer clauses and literal occurrences than its caller's.
Termination ==
    /\ <>(pc = "done")
    /\ [][(Len(stack) > 0 /\ Len(stack') > Len(stack)) =>
             Size(stack'[Len(stack')].cnf) < Size(Top.cnf)]_vars

\* a solve that branched and found both branches unsatisfiable has ended
C5Witness ==
    /\ pc = "done"
    /\ sat = "False"
    /\ Len(cnf) > 0
    /\ \A i \in 1..Len(cnf) : Len(cnf[i]) >= 2

\* C7: a call of dpll on F returns True when F has no clause; otherwise returns False
\* when F has an empty clause, unit clauses or not; otherwise propagates the literal of
\* the first unit clause without consulting select_literal; and consults select_literal
\* only when F is not empty and has neither an empty nor a unit clause.
TransitionPriority ==
    [][AtCall =>
        LET F == Top.cnf
            empty == \E i \in 1..Len(F) : Len(F[i]) = 0
            units == {i \in 1..Len(F) : Len(F[i]) = 1}
            first == CHOOSE i \in units : \A k \in units : i <= k
        IN  /\ Len(F) = 0 => (retval' = "True" /\ stack' = Pop /\ step' = "sat")
            /\ (Len(F) > 0 /\ empty) =>
                   (retval' = "False" /\ stack' = Pop /\ step' = "unsat")
            /\ (Len(F) > 0 /\ ~empty /\ units # {}) =>
                   /\ step' = "unit"
                   /\ stack'[Len(stack)].pc = "unit"
                   /\ stack'[Len(stack)].literal = F[first][1]
                   /\ valuation' = Put(valuation, Abs(F[first][1]), F[first][1] > 0)
                   /\ stack'[Len(stack')].cnf = simplify(F, F[first][1])
            /\ step' = "branch" <=> (Len(F) > 0 /\ ~empty /\ units = {})
    ]_vars

\* unit propagation has produced a formula with an empty clause and a unit clause
C7Witness ==
    /\ AtCall
    /\ step = "unit"
    /\ \E i \in 1..Len(Top.cnf) : Len(Top.cnf[i]) = 0
    /\ \E i \in 1..Len(Top.cnf) : Len(Top.cnf[i]) = 1

\* C8: a branching step on l over F first calls dpll on simplify(F, l); it calls dpll
\* on simplify(F, -l) exactly when the first call returned False; when the first call
\* returned True it returns True and leaves the valuation alone; otherwise it returns
\* what the second call returned.
BranchOrder ==
    [][/\ (AtCall /\ step' = "branch") =>
            /\ Len(stack') = Len(stack) + 1
            /\ stack'[Len(stack)].pc = "branch1"
            /\ stack'[Len(stack')].cnf = simplify(Top.cnf, stack'[Len(stack)].literal)
       /\ (Running /\ Top.pc = "branch1" /\ retval = "True") =>
            (stack' = Pop /\ retval' = "True" /\ valuation' = valuation)
       /\ (Running /\ Top.pc = "branch1" /\ retval = "False") =>
            /\ Len(stack') = Len(stack) + 1
            /\ stack'[Len(stack)].pc = "branch2"
            /\ stack'[Len(stack')].pc = "call"
            /\ stack'[Len(stack')].cnf = simplify(Top.cnf, -Top.literal)
            /\ retval' = "none"
       /\ (\E i \in 1..Len(stack) : i <= Len(stack') /\ stack'[i].pc = "branch2"
                                    /\ stack[i].pc # "branch2") =>
            (Top.pc = "branch1" /\ retval = "False")
       /\ (Running /\ Top.pc = "branch2" /\ retval # "none") =>
            (stack' = Pop /\ retval' = retval)
    ]_vars

\* the second call of a branching step has returned False
C8Witness ==
    /\ Running
    /\ Top.pc = "branch2"
    /\ retval = "False"

\* C10: on a formula without two literals of one variable in a clause, dpll's verdict
\* is True exactly when the formula is satisfiable, and every formula passed to a
\* recursive call is again such a formula, without the variable just decided.
CleanVerdict ==
    Clean(cnf) =>
        /\ pc = "done" => ((sat = "True") <=> Satisfiable(cnf))
        /\ \A i \in 2..Len(stack) :
               /\ Clean(stack[i].cnf)
               /\ Abs(stack[i - 1].literal) \notin Vars(stack[i].cnf)

\* a satisfiable formula of that kind whose first branch failed
C10Witness ==
    /\ Clean(cnf)
    /\ pc = "done"
    /\ sat = "True"
    /\ step = "sat"
    /\ \E k \in DOMAIN valuation : k < 0 /\ valuation[k] = FALSE

=============================================================================
